---- MODULE Spec2Model ----
(***************************************************************************)
(* A model of pkg/config of cfg-manager: the Manager (a tree of Go maps    *)
(* addressed by dot paths), its loaders, the key normalizer                *)
(* transformMapKeys and the ThreadSafeManager wrapper.                     *)
(*                                                                         *)
(* Go maps are reference values, so the tree lives in a heap of map        *)
(* objects; a value is a scalar, a sequence or a reference to a map        *)
(* object.  Go strings are sequences of one-character strings, so that     *)
(* strings.Split and strings.EqualFold are computed, not assumed.          *)
(***************************************************************************)
EXTENDS Integers, Sequences, FiniteSets, TLC

VARIABLES
    heap,           \* address -> map object (or NoObj): the Go heap of maps
    data,           \* Manager.data: address of the root map, NilAddr for a nil map
    fileFormat,     \* Manager.fileFormat
    filePath,       \* Manager.filePath
    caseSensitive,  \* Manager.caseSensitive
    other,          \* the map handed to the last Merge/MergeMap (NilAddr if none)
    last,           \* the last call: operation, arguments, outcome
    pre,            \* history: the Manager's fields and heap before the last call
    calls,          \* number of mutating calls made so far
    nin,            \* normalizer harness: the input of transformMapKeys
    nout,           \* normalizer harness: its result, and the result normalized again
    mu,             \* wrapper -> its mu: [r |-> readers, w |-> writer holding it]
    pc,             \* goroutine -> position inside its wrapper call
    op,             \* goroutine -> the wrapper method it is calling
    via             \* goroutine -> the wrapper it is calling (0: none)

vars == <<heap, data, fileFormat, filePath, caseSensitive, other, last, pre,
          calls, nin, nout, mu, pc, op, via>>

mgrVars == <<heap, data, fileFormat, filePath, caseSensitive, other, last, pre, calls>>
normVars == <<nin, nout>>
tsVars == <<mu, pc, op, via>>

----------------------------------------------------------------------------
(* Bounds of the model. *)

MaxCalls == 2       \* mutating calls per behaviour
MaxAddr == 7        \* map objects the heap can hold
NumProcs == 2       \* goroutines calling one ThreadSafeManager
MaxWrappers == 2    \* ThreadSafeManagers made of one Manager
MaxFrameCalls == 3  \* Set calls of a caller that hands on what Get returned

----------------------------------------------------------------------------
(* Go strings. *)

sA == <<"a">>
sUA == <<"A">>
sB == <<"b">>
sUB == <<"B">>
s1 == <<"1">>
sX == <<"x">>
sY == <<"y">>
sDot == <<".">>
sEmpty == <<>>
sApp == <<"a","p","p">>
sName == <<"n","a","m","e">>
sVersion == <<"v","e","r","s","i","o","n">>
sServer == <<"s","e","r","v","e","r">>
sPort == <<"p","o","r","t">>
sTestApp == <<"T","e","s","t","A","p","p">>
sV100 == <<"1",".","0",".","0">>
sJson == <<"j","s","o","n">>
sYaml == <<"y","a","m","l">>
sYml == <<"y","m","l">>
sInvalid == <<"i","n","v","a","l","i","d">>

\* unicode.ToLower on the letters the model uses; other characters have no case.
LowerChar(c) ==
    CASE c = "A" -> "a"
      [] c = "B" -> "b"
      [] c = "T" -> "t"
      [] c = "E" -> "e"
      [] c = "N" -> "n"
      [] c = "O" -> "o"
      [] c = "S" -> "s"
      [] c = "Y" -> "y"
      [] OTHER -> c

\* strings.ToLower(s)
ToLower(s) == [i \in 1..Len(s) |-> LowerChar(s[i])]

\* strings.EqualFold(s, t): equal under simple case folding.
EqualFold(s, t) ==
    /\ Len(s) = Len(t)
    /\ \A i \in 1..Len(s) : LowerChar(s[i]) = LowerChar(t[i])

\* strings.Split(path, "."): the segments between the dots.  Never empty:
\* Split("", ".") is one empty segment.
RECURSIVE SplitFrom(_, _, _)
SplitFrom(path, i, cur) ==
    IF i > Len(path) THEN <<cur>>
    ELSE IF path[i] = "." THEN <<cur>> \o SplitFrom(path, i + 1, <<>>)
    ELSE SplitFrom(path, i + 1, Append(cur, path[i]))

Split(path) == SplitFrom(path, 1, <<>>)

\* a.b
Join2(a, b) == a \o sDot \o b

DigitChar(d) ==
    CASE d = 0 -> "0" [] d = 1 -> "1" [] d = 2 -> "2" [] d = 3 -> "3" [] d = 4 -> "4"
      [] d = 5 -> "5" [] d = 6 -> "6" [] d = 7 -> "7" [] d = 8 -> "8" [] d = 9 -> "9"

\* fmt.Sprintf("%d", n)
RECURSIVE FormatNat(_)
FormatNat(n) ==
    IF n < 10 THEN <<DigitChar(n)>>
    ELSE Append(FormatNat(n \div 10), DigitChar(n % 10))

FormatInt(n) == IF n < 0 THEN <<"-">> \o FormatNat(0 - n) ELSE FormatNat(n)

\* fmt.Sprintf("%t", b), b given as 0/1
FormatBool(n) == IF n = 1 THEN <<"t","r","u","e">> ELSE <<"f","a","l","s","e">>

----------------------------------------------------------------------------
(* Go values.  One record shape for every value, so that any two values    *)
(* can be compared: t is the dynamic type, s a string's characters, n an   *)
(* int, a bool (0/1), a float64 in tenths, or the address of a map, e the  *)
(* elements of a []interface{}, m the entries of a map value that is not   *)
(* on the heap yet (decoder output, an argument of the caller).            *)

EmptyMap == [k \in {} |-> 0]

VNil == [s |-> <<>>, t |-> "nil", n |-> 0, e |-> <<>>, m |-> EmptyMap]
VStr(x) == [s |-> x, t |-> "str", n |-> 0, e |-> <<>>, m |-> EmptyMap]
VInt(i) == [s |-> <<>>, t |-> "int", n |-> i, e |-> <<>>, m |-> EmptyMap]
VInt64(i) == [s |-> <<>>, t |-> "int64", n |-> i, e |-> <<>>, m |-> EmptyMap]
VFloat(tenths) == [s |-> <<>>, t |-> "float", n |-> tenths, e |-> <<>>, m |-> EmptyMap]
VBool(b) == [s |-> <<>>, t |-> "bool", n |-> IF b THEN 1 ELSE 0, e |-> <<>>, m |-> EmptyMap]
VSeq(elems) == [s |-> <<>>, t |-> "seq", n |-> 0, e |-> elems, m |-> EmptyMap]
VRef(a) == [s |-> <<>>, t |-> "ref", n |-> a, e |-> <<>>, m |-> EmptyMap]
\* map[string]interface{} and map[interface{}]interface{} as plain values
VSMap(f) == [s |-> <<>>, t |-> "smap", n |-> 0, e |-> <<>>, m |-> f]
VIMap(f) == [s |-> <<>>, t |-> "imap", n |-> 0, e |-> <<>>, m |-> f]

\* Map keys: a string key, or (map[interface{}]interface{} only) an int,
\* bool or float64 key.
KStr(x) == [s |-> x, t |-> "str", n |-> 0]
KInt(i) == [s |-> <<>>, t |-> "int", n |-> i]
KBool(b) == [s |-> <<>>, t |-> "bool", n |-> IF b THEN 1 ELSE 0]
KFloat(tenths) == [s |-> <<>>, t |-> "float", n |-> tenths]

IsMapType(t) == t \in {"smap", "imap", "map"}

\* f with key k bound to v (Go: f[k] = v)
Put(f, k, v) == [x \in DOMAIN f \cup {k} |-> IF x = k THEN v ELSE f[x]]
\* f without key k (Go: delete(f, k))
Remove(f, k) == [x \in DOMAIN f \ {k} |-> f[x]]

\* One-entry and two-entry maps, for writing documents down.
M1(k, v) == [x \in {k} |-> v]
M2(k1, v1, k2, v2) == [x \in {k1, k2} |-> IF x = k1 THEN v1 ELSE v2]

\* fmt.Sprintf("%g", f) for a float64 held in tenths
FormatFloat(tenths) ==
    LET neg == tenths < 0
        abs == IF neg THEN 0 - tenths ELSE tenths
        whole == FormatNat(abs \div 10)
        frac == IF abs % 10 = 0 THEN <<>> ELSE <<".", DigitChar(abs % 10)>>
    IN (IF neg THEN <<"-">> ELSE <<>>) \o whole \o frac

\* fmt.Sprintf("%v", k) for a map key
SprintV(k) ==
    CASE k.t = "str" -> k.s
      [] k.t = "int" -> FormatInt(k.n)
      [] k.t = "float" -> FormatFloat(k.n)
      [] k.t = "bool" -> FormatBool(k.n)

\* The key switch of transformMapKeys: string as is, integers by %d,
\* floats by %g, bools by %t.
KeyToString(k) ==
    CASE k.t = "str" -> k.s
      [] k.t = "int" -> FormatInt(k.n)
      [] k.t = "float" -> FormatFloat(k.n)
      [] k.t = "bool" -> FormatBool(k.n)
      [] OTHER -> SprintV(k)

\* The possible results of filling a map[string]interface{} from the entries
\* of f, key k going to KStr(str(k)) and its value to one of vals(f[k]).  Two
\* keys with the same rendering write the same entry; Go ranges over a map in
\* no fixed order, so either value may be the one that stays.
Rekeyed(f, str(_), vals(_)) ==
    LET S == {KStr(str(k)) : k \in DOMAIN f}
        from(sk) == UNION {vals(f[k]) : k \in {x \in DOMAIN f : KStr(str(x)) = sk}}
        all == UNION {vals(f[k]) : k \in DOMAIN f}
    IN {g \in [S -> all] : \A sk \in S : g[sk] \in from(sk)}

\* The sequences whose i-th element is one of vals(e[i]).
Elementwise(e, vals(_)) ==
    LET all == UNION {vals(e[i]) : i \in 1..Len(e)}
    IN {q \in [1..Len(e) -> all] : \A i \in 1..Len(e) : q[i] \in vals(e[i])}

\* A transformMapKeys that converts the keys of a map[interface{}]interface{}
\* and leaves its values as they are.
transformMapKeys_keysOnly(v) ==
    IF v.t = "imap" THEN {VSMap(g) : g \in Rekeyed(v.m, KeyToString, LAMBDA x : {x})}
    ELSE {v}

\* transformMapKeys(v): the set of values it can return.
RECURSIVE transformMapKeys(_)
transformMapKeys(v) ==
    CASE v.t = "nil" -> {VNil}
      [] v.t = "imap" ->
            {VSMap(g) : g \in Rekeyed(v.m, KeyToString, transformMapKeys)}
      [] v.t = "smap" ->
            {VSMap(g) : g \in Rekeyed(v.m, LAMBDA k : k.s, transformMapKeys)}
      [] v.t = "seq" ->
            {VSeq(q) : q \in Elementwise(v.e, transformMapKeys)}
      [] OTHER -> {v}

\* Every map node of a plain value is a map[string]interface{} with string keys.
RECURSIVE StringKeyed(_)
StringKeyed(v) ==
    CASE v.t = "imap" -> FALSE
      [] v.t = "smap" -> /\ \A k \in DOMAIN v.m : k.t = "str"
                         /\ \A k \in DOMAIN v.m : StringKeyed(v.m[k])
      [] v.t = "seq" -> \A i \in 1..Len(v.e) : StringKeyed(v.e[i])
      [] OTHER -> TRUE

----------------------------------------------------------------------------
(* The heap of map objects. *)

NilAddr == 0        \* a nil map
TempAddr == -1      \* a map local to one call, unreachable once the call returns

Addrs == 1..MaxAddr
NoObj == [m |-> EmptyMap, kind |-> "free"]

\* make(map[...]...): the address of a fresh map object
Alloc(h) == CHOOSE a \in Addrs : h[a].kind = "free" /\ \A b \in 1..(a - 1) : h[b].kind # "free"

FreeCount(h) == Cardinality({a \in Addrs : h[a].kind = "free"})

\* The number of map objects a plain value allocates when it is built.
RECURSIVE MapCount(_)
RECURSIVE MapCountSeq(_, _)
RECURSIVE MapCountEntries(_, _)
MapCount(v) ==
    CASE IsMapType(v.t) -> 1 + MapCountEntries(v.m, DOMAIN v.m)
      [] v.t = "seq" -> MapCountSeq(v.e, 1)
      [] OTHER -> 0
MapCountSeq(e, i) == IF i > Len(e) THEN 0 ELSE MapCount(e[i]) + MapCountSeq(e, i + 1)
MapCountEntries(f, ks) ==
    IF ks = {} THEN 0
    ELSE LET k == CHOOSE x \in ks : TRUE
         IN MapCount(f[k]) + MapCountEntries(f, ks \ {k})

\* A plain value built on the heap, as a decoder or the caller builds it:
\* [v |-> the value, maps now references, h |-> the heap with the value's maps].
RECURSIVE Build(_, _)
RECURSIVE BuildEntries(_, _, _, _)
RECURSIVE BuildSeq(_, _, _)
Build(h, v) ==
    CASE IsMapType(v.t) ->
            LET a == Alloc(h)
                h0 == [h EXCEPT ![a] = [m |-> EmptyMap, kind |-> v.t]]
            IN [v |-> VRef(a), h |-> BuildEntries(h0, a, v.m, DOMAIN v.m)]
      [] v.t = "seq" ->
            LET r == BuildSeq(h, v.e, 1) IN [v |-> VSeq(r.e), h |-> r.h]
      [] OTHER -> [v |-> v, h |-> h]
BuildEntries(h, a, f, ks) ==
    IF ks = {} THEN h
    ELSE LET k == CHOOSE x \in ks : TRUE
             r == Build(h, f[k])
         IN BuildEntries([r.h EXCEPT ![a].m = Put(@, k, r.v)], a, f, ks \ {k})
BuildSeq(h, e, i) ==
    IF i > Len(e) THEN [e |-> <<>>, h |-> h]
    ELSE LET r == Build(h, e[i])
             rest == BuildSeq(r.h, e, i + 1)
         IN [e |-> <<r.v>> \o rest.e, h |-> rest.h]

\* The plain value a heap value denotes (what a reader of the tree sees).
RECURSIVE Plain(_, _)
Plain(h, v) ==
    CASE v.t = "ref" ->
            IF v.n = NilAddr THEN VSMap(EmptyMap)
            ELSE [s |-> <<>>, t |-> h[v.n].kind, n |-> 0, e |-> <<>>,
                  m |-> [k \in DOMAIN h[v.n].m |-> Plain(h, h[v.n].m[k])]]
      [] v.t = "seq" ->
            IF v.e = <<>> THEN v ELSE VSeq(<<Plain(h, Head(v.e))>> \o Plain(h, VSeq(Tail(v.e))).e)
      [] OTHER -> v

\* The addresses a value refers to directly.
RECURSIVE RefsOf(_)
RefsOf(v) ==
    CASE v.t = "ref" -> {v.n} \ {NilAddr}
      [] v.t = "seq" -> UNION {RefsOf(v.e[i]) : i \in 1..Len(v.e)}
      [] OTHER -> {}

\* The map objects reachable from the addresses in `roots`.
RECURSIVE Reachable(_, _)
Reachable(h, roots) ==
    LET next == roots \cup UNION {UNION {RefsOf(h[a].m[k]) : k \in DOMAIN h[a].m} : a \in roots}
    IN IF next = roots THEN roots ELSE Reachable(h, next)

\* Go's garbage collector: map objects nothing refers to any more are freed.
Collect(h, roots) ==
    LET live == Reachable(h, roots \ {NilAddr})
    IN [a \in Addrs |-> IF a \in live THEN h[a] ELSE NoObj]

----------------------------------------------------------------------------
(* Path resolution: getNestedMap and Manager.Get. *)

\* The entries of the map at address a (a nil map has none).
EntriesAt(h, a) == IF a = NilAddr THEN EmptyMap ELSE h[a].m

\* The keys of map entries f that strings.EqualFold matches with key.  A Go
\* `for k := range f { if EqualFold(k, key) { ...; break } }` ends at any one
\* of them: the iteration order of a map is not fixed.
FoldMatches(f, key) == {k \in DOMAIN f : k.t = "str" /\ EqualFold(k.s, key)}

GnmErr(kind) == [m |-> EmptyMap, err |-> kind, addr |-> NilAddr, lastKey |-> <<>>]
GnmOk(addr, f, key) == [m |-> f, err |-> "", addr |-> addr, lastKey |-> key]

\* The loop of getNestedMap from index i (1-based) with `current` = the map
\* (addr, f), and the final case fold after it: the set of possible returns.
RECURSIVE gnmWalk(_, _, _, _, _, _)
gnmWalk(h, addr, f, keys, i, cs) ==
    IF i >= Len(keys)
    THEN LET lastKey == keys[Len(keys)]
             hits == FoldMatches(f, lastKey)
         IN IF cs \/ hits = {} THEN {GnmOk(addr, f, lastKey)}
            ELSE {GnmOk(addr, f, k.s) : k \in hits}
    ELSE LET hits == FoldMatches(f, keys[i])
             cands == IF cs THEN {keys[i]} ELSE {k.s : k \in hits}
             step(key) ==
                IF KStr(key) \notin DOMAIN f THEN {GnmErr("notfound")}
                ELSE LET val == f[KStr(key)]
                     IN IF val.t = "ref" /\ val.n # NilAddr /\ h[val.n].kind = "smap"
                        THEN gnmWalk(h, val.n, h[val.n].m, keys, i + 1, cs)
                        ELSE IF val.t = "ref" /\ val.n # NilAddr /\ h[val.n].kind = "imap"
                        THEN IF \E k \in DOMAIN h[val.n].m : k.t # "str"
                             THEN {GnmErr("notstring")}
                             ELSE gnmWalk(h, TempAddr, h[val.n].m, keys, i + 1, cs)
                        ELSE {GnmErr("notmap")}
         IN IF cands = {} THEN {GnmErr("notfound")}
            ELSE UNION {step(key) : key \in cands}

\* A getNestedMap that ends with `return nil, "", nil`.
getNestedMap_returnsNil(h, d, path, cs) == {GnmOk(NilAddr, EmptyMap, <<>>)}

\* getNestedMap(data, path, caseSensitive): the set of possible returns
\* (parent map, last key, error).
getNestedMap(h, d, path, cs) ==
    LET keys == Split(path)
    IN IF Len(keys) = 1 THEN {GnmOk(d, EntriesAt(h, d), keys[1])}
       ELSE gnmWalk(h, d, EntriesAt(h, d), keys, 1, cs)

\* A caller that looks the last key up as getNestedMap returned it.
CallerLastKeys_noFold(r, cs) == {r.lastKey}

\* The last key a caller of getNestedMap ends with after its own case fold.
CallerLastKeys(r, cs) ==
    LET hits == FoldMatches(r.m, r.lastKey)
    IN IF cs \/ hits = {} THEN {r.lastKey} ELSE {k.s : k \in hits}

ResOk(v) == [v |-> v, err |-> ""]
ResErr(kind) == [v |-> VNil, err |-> kind]

\* Manager.Get(key): the set of possible returns (value, error).
Get(h, d, key, cs) ==
    IF key = <<>> THEN {ResOk(VRef(d))}
    ELSE UNION {
           IF r.err # "" THEN {ResErr(r.err)}
           ELSE {IF KStr(lk) \in DOMAIN r.m THEN ResOk(r.m[KStr(lk)]) ELSE ResErr("notfound")
                   : lk \in CallerLastKeys(r, cs)}
           : r \in getNestedMap(h, d, key, cs)}

----------------------------------------------------------------------------
(* Mutation: Manager.Set, Manager.Delete, Manager.Clear, Manager.MergeMap. *)

MutOk(h) == [h |-> h, err |-> ""]
MutErr(kind, h) == [h |-> h, err |-> kind]

IsRefTo(h, v, kind) == v.t = "ref" /\ v.n # NilAddr /\ h[v.n].kind = kind

\* The loop of Set from index i (1-based) with `current` at address cur, and
\* the final assignment: the set of possible heaps.  A map[interface{}]...
\* on the way is copied into a new map[string]interface{} keyed by
\* fmt.Sprintf("%v", key), which is stored in its place.
RECURSIVE setWalk(_, _, _, _, _)
setWalk(h, cur, keys, i, value) ==
    IF i >= Len(keys)
    THEN {[h EXCEPT ![cur].m = Put(@, KStr(keys[Len(keys)]), value)]}
    ELSE LET k == KStr(keys[i])
             f == h[cur].m
             a == Alloc(h)
             fresh(g) == [h EXCEPT ![a] = [m |-> g, kind |-> "smap"],
                                   ![cur].m = Put(@, k, VRef(a))]
         IN IF k \notin DOMAIN f
            THEN setWalk(fresh(EmptyMap), a, keys, i + 1, value)
            ELSE IF IsRefTo(h, f[k], "smap")
            THEN setWalk(h, f[k].n, keys, i + 1, value)
            ELSE IF IsRefTo(h, f[k], "imap")
            THEN UNION {setWalk(fresh(g), a, keys, i + 1, value)
                          : g \in Rekeyed(h[f[k].n].m, SprintV, LAMBDA x : {x})}
            ELSE setWalk(fresh(EmptyMap), a, keys, i + 1, value)

\* Manager.Set(key, value): the set of possible outcomes.  Writing into a nil
\* m.data is a run-time panic (assignment to entry in nil map).
Set(h, d, key, value) ==
    IF key = <<>> THEN {MutErr("invalidkey", h)}
    ELSE IF d = NilAddr THEN {MutErr("panic", h)}
    ELSE {MutOk(h2) : h2 \in setWalk(h, d, Split(key), 1, value)}

\* Manager.Delete(key): the set of possible outcomes.  delete(parentMap, k)
\* acts on the map getNestedMap returned: a map of the tree, or the copy it
\* made of a map[interface{}]interface{}.
Delete(h, d, key, cs) ==
    IF key = <<>> THEN {MutErr("emptykey", h)}
    ELSE UNION {
           IF r.err # "" THEN {MutErr(r.err, h)}
           ELSE {IF KStr(lk) \notin DOMAIN r.m THEN MutErr("notfound", h)
                 ELSE IF r.addr \in Addrs
                      THEN MutOk([h EXCEPT ![r.addr].m = Remove(@, KStr(lk))])
                      ELSE MutOk(h)
                   : lk \in CallerLastKeys(r, cs)}
           : r \in getNestedMap(h, d, key, cs)}

\* Manager.Clear(): m.data = make(map[string]interface{})
Clear(h) ==
    LET a == Alloc(h)
    IN [d |-> a, h |-> [h EXCEPT ![a] = [m |-> EmptyMap, kind |-> "smap"]]]

\* The inner loop of MergeMap: existingMap[nk] = nv for every entry of newMap.
RECURSIVE mergeInto(_, _, _, _)
mergeInto(h, existing, new, ks) ==
    IF ks = {} THEN h
    ELSE LET nk == CHOOSE x \in ks : TRUE
         IN mergeInto([h EXCEPT ![existing].m = Put(@, nk, h[new].m[nk])],
                      existing, new, ks \ {nk})

\* The outer loop of MergeMap over the keys ks of the argument map at o.
RECURSIVE mergeLoop(_, _, _, _)
mergeLoop(h, d, o, ks) ==
    IF ks = {} THEN MutOk(h)
    ELSE LET k == CHOOSE x \in ks : TRUE
             v == h[o].m[k]
             f == EntriesAt(h, d)
         IN IF k \in DOMAIN f /\ IsRefTo(h, f[k], "smap") /\ IsRefTo(h, v, "smap")
            THEN mergeLoop(mergeInto(h, f[k].n, v.n, DOMAIN h[v.n].m), d, o, ks \ {k})
            ELSE IF d = NilAddr THEN MutErr("panic", h)
            ELSE mergeLoop([h EXCEPT ![d].m = Put(@, k, v)], d, o, ks \ {k})

\* A MergeMap that assigns every entry of the argument to m.data.
MergeMap_wholesale(h, d, o) ==
    IF d = NilAddr THEN MutErr("panic", h)
    ELSE LET f == h[d].m
             g == h[o].m
         IN MutOk([h EXCEPT ![d].m = [k \in DOMAIN f \cup DOMAIN g |->
                                        IF k \in DOMAIN g THEN g[k] ELSE f[k]]])

\* Manager.MergeMap(data), data being the map at address o.
MergeMap(h, d, o) == mergeLoop(h, d, o, DOMAIN EntriesAt(h, o))

\* Manager.Data(): a new map with the entries of m.data (the values are not
\* copied: a nested map is the same map object).
Data(h, d) ==
    LET a == Alloc(h)
    IN [v |-> VRef(a), h |-> [h EXCEPT ![a] = [m |-> EntriesAt(h, d), kind |-> "smap"]]]

----------------------------------------------------------------------------
(* Loading.  The content handed to Load is a document: a tree of scalars,  *)
(* sequences and mappings (written in JSON or in YAML syntax), text that   *)
(* is no document at all, or a reader that fails.                          *)

DMap(f) == [s |-> <<>>, t |-> "map", n |-> 0, e |-> <<>>, m |-> f]
DBad == [s |-> <<>>, t |-> "bad", n |-> 0, e |-> <<>>, m |-> EmptyMap]
DReadErr == [s |-> <<>>, t |-> "readerr", n |-> 0, e |-> <<>>, m |-> EmptyMap]

FormatJSON == sJson
FormatYAML == sYaml
FormatYML == sYml

\* JSON has string keys only: a mapping with another key is not JSON text.
RECURSIVE IsJSON(_)
IsJSON(doc) ==
    CASE doc.t \in {"bad", "readerr"} -> FALSE
      [] doc.t = "map" -> /\ \A k \in DOMAIN doc.m : k.t = "str"
                          /\ \A k \in DOMAIN doc.m : IsJSON(doc.m[k])
      [] doc.t = "seq" -> \A i \in 1..Len(doc.e) : IsJSON(doc.e[i])
      [] OTHER -> TRUE

\* What encoding/json decodes a document to in an interface{}: every number
\* a float64, every object a map[string]interface{}.
RECURSIVE jsonValue(_)
jsonValue(doc) ==
    CASE doc.t = "map" -> VSMap([k \in DOMAIN doc.m |-> jsonValue(doc.m[k])])
      [] doc.t = "seq" ->
            IF doc.e = <<>> THEN doc
            ELSE VSeq(<<jsonValue(Head(doc.e))>> \o jsonValue(VSeq(Tail(doc.e))).e)
      [] doc.t = "int" -> VFloat(10 * doc.n)
      [] OTHER -> doc

\* yaml.v3 refuses a mapping that writes the same key scalar twice (1 and
\* "1" are the same scalar text).
RECURSIVE IsYAML(_)
IsYAML(doc) ==
    CASE doc.t \in {"bad", "readerr"} -> FALSE
      [] doc.t = "map" ->
            /\ \A j, k \in DOMAIN doc.m : KeyToString(j) = KeyToString(k) => j = k
            /\ \A k \in DOMAIN doc.m : IsYAML(doc.m[k])
      [] doc.t = "seq" -> \A i \in 1..Len(doc.e) : IsYAML(doc.e[i])
      [] OTHER -> TRUE

\* What yaml.v3 decodes a document to in an interface{}: a mapping whose keys
\* are all strings a map[string]interface{}, any other mapping a
\* map[interface{}]interface{}.
RECURSIVE yamlValue(_)
yamlValue(doc) ==
    CASE doc.t = "map" ->
            LET f == [k \in DOMAIN doc.m |-> yamlValue(doc.m[k])]
            IN IF \A k \in DOMAIN doc.m : k.t = "str" THEN VSMap(f) ELSE VIMap(f)
      [] doc.t = "seq" ->
            IF doc.e = <<>> THEN doc
            ELSE VSeq(<<yamlValue(Head(doc.e))>> \o yamlValue(VSeq(Tail(doc.e))).e)
      [] OTHER -> doc

LoadRes(err, h, d, ff) == [d |-> d, h |-> h, err |-> err, ff |-> ff]

\* json.Unmarshal into the entries of the map at address d: each key of the
\* object is bound to its newly decoded value.
RECURSIVE jsonInto(_, _, _, _)
jsonInto(h, d, f, ks) ==
    IF ks = {} THEN h
    ELSE LET k == CHOOSE x \in ks : TRUE
             r == Build(h, f[k])
         IN jsonInto([r.h EXCEPT ![d].m = Put(@, k, r.v)], d, f, ks \ {k})

\* json.Unmarshal(content, &m.data): text that is not JSON and a top level
\* that is no object are errors and leave m.data alone; null sets m.data to
\* nil; an object is decoded into m.data, which is allocated only when nil.
jsonUnmarshal(h, d, doc) ==
    IF ~IsJSON(doc) THEN [d |-> d, h |-> h, err |-> "parse"]
    ELSE LET v == jsonValue(doc)
         IN CASE v.t = "nil" -> [d |-> NilAddr, h |-> h, err |-> ""]
              [] v.t = "smap" ->
                    LET c == IF d = NilAddr THEN Clear(h) ELSE [d |-> d, h |-> h]
                    IN [d |-> c.d, h |-> jsonInto(c.h, c.d, v.m, DOMAIN v.m), err |-> ""]
              [] OTHER -> [d |-> d, h |-> h, err |-> "parse"]

\* A Load that stores the format tag before it decodes.
Load_tagFirst(h, d, ff, doc, format) ==
    IF format = FormatJSON /\ doc.t # "readerr"
    THEN LET r == jsonUnmarshal(h, d, doc) IN {LoadRes(r.err, r.h, r.d, format)}
    ELSE {LoadRes("parse", h, d, format)}

\* Manager.Load(r, format): the set of possible outcomes.
Load(h, d, ff, doc, format) ==
    IF doc.t = "readerr" THEN {LoadRes("read", h, d, ff)}
    ELSE IF format = FormatJSON
    THEN LET r == jsonUnmarshal(h, d, doc)
         IN {LoadRes(r.err, r.h, r.d, IF r.err = "" THEN format ELSE ff)}
    ELSE IF format \in {FormatYAML, FormatYML}
    THEN IF ~IsYAML(doc) THEN {LoadRes("parse", h, d, ff)}
         ELSE LET v == yamlValue(doc)
              IN CASE v.t = "smap" ->
                        LET b == Build(h, v) IN {LoadRes("", b.h, b.v.n, format)}
                   [] v.t = "imap" ->
                        {LET b == Build(h, tv) IN LoadRes("", b.h, b.v.n, format)
                           : tv \in transformMapKeys(v)}
                   [] OTHER -> {LoadRes("parse", h, d, ff)}
    ELSE {LoadRes("parse", h, d, ff)}

----------------------------------------------------------------------------
(* Typed accessors. *)

\* The characters of the model in code-point order, for comparing strings.
CharOrder == <<" ", "-", ".", "0", "1", "2", "3", "4", "5", "6", "7", "8", "9", ":",
               "<", ">", "A", "B", "T", "[", "]", "a", "b", "d", "e", "f", "i", "j",
               "l", "m", "n", "o", "p", "r", "s", "t", "u", "v", "x", "y">>
CharRank(c) == CHOOSE i \in 1..Len(CharOrder) : CharOrder[i] = c

RECURSIVE StrLess(_, _)
StrLess(x, y) ==
    IF y = <<>> THEN FALSE
    ELSE IF x = <<>> THEN TRUE
    ELSE IF Head(x) = Head(y) THEN StrLess(Tail(x), Tail(y))
    ELSE CharRank(Head(x)) < CharRank(Head(y))

\* The orders in which fmt prints the keys of a map: string keys sorted; keys
\* of several dynamic types in an order that depends on the build.
RECURSIVE KeyOrders(_)
KeyOrders(ks) ==
    IF ks = {} THEN {<<>>}
    ELSE LET firsts == IF \A k \in ks : k.t = "str"
                       THEN {k \in ks : \A j \in ks : j = k \/ StrLess(k.s, j.s)}
                       ELSE ks
         IN UNION {{<<k>> \o rest : rest \in KeyOrders(ks \ {k})} : k \in firsts}

\* fmt.Sprintf("%v", v): the set of possible renderings of a value.
RECURSIVE Sprint(_, _)
RECURSIVE SprintElems(_, _)
RECURSIVE SprintEntries(_, _, _)
Sprint(h, v) ==
    CASE v.t = "str" -> {v.s}
      [] v.t \in {"int", "int64"} -> {FormatInt(v.n)}
      [] v.t = "float" -> {FormatFloat(v.n)}
      [] v.t = "bool" -> {FormatBool(v.n)}
      [] v.t = "nil" -> {<<"<", "n", "i", "l", ">">>}
      [] v.t = "seq" -> {<<"[">> \o body \o <<"]">> : body \in SprintElems(h, v.e)}
      [] v.t = "ref" ->
            LET f == EntriesAt(h, v.n)
            IN {<<"m", "a", "p", "[">> \o body \o <<"]">>
                  : body \in UNION {SprintEntries(h, f, ord) : ord \in KeyOrders(DOMAIN f)}}
SprintElems(h, e) ==
    IF e = <<>> THEN {<<>>}
    ELSE {x \o (IF Tail(e) = <<>> THEN <<>> ELSE <<" ">>) \o rest
            : x \in Sprint(h, Head(e)), rest \in SprintElems(h, Tail(e))}
SprintEntries(h, f, ord) ==
    IF ord = <<>> THEN {<<>>}
    ELSE {SprintV(Head(ord)) \o <<":">> \o x \o (IF Tail(ord) = <<>> THEN <<>> ELSE <<" ">>) \o rest
            : x \in Sprint(h, f[Head(ord)]), rest \in SprintEntries(h, f, Tail(ord))}

\* Manager.GetString(key)
GetString(h, d, key, cs) ==
    UNION {IF r.err # "" THEN {r} ELSE {ResOk(VStr(x)) : x \in Sprint(h, r.v)}
             : r \in Get(h, d, key, cs)}

DigitValue(c) ==
    CASE c = "0" -> 0 [] c = "1" -> 1 [] c = "2" -> 2 [] c = "3" -> 3 [] c = "4" -> 4
      [] c = "5" -> 5 [] c = "6" -> 6 [] c = "7" -> 7 [] c = "8" -> 8 [] c = "9" -> 9
      [] OTHER -> -1

\* The value of the digits of x from index i on, read until the first
\* character that is no digit: [n |-> value so far, any |-> a digit was read].
RECURSIVE ScanDigits(_, _, _, _)
ScanDigits(x, i, acc, any) ==
    IF i > Len(x) \/ DigitValue(x[i]) < 0 THEN [n |-> acc, any |-> any]
    ELSE ScanDigits(x, i + 1, 10 * acc + DigitValue(x[i]), TRUE)

RECURSIVE SkipSpace(_, _)
SkipSpace(x, i) == IF i <= Len(x) /\ x[i] = " " THEN SkipSpace(x, i + 1) ELSE i

\* fmt.Sscanf(x, "%d", &i): leading spaces, an optional sign, then digits up
\* to the first character that is none; what follows the digits is not read.
Sscanf_d(x) ==
    LET i == SkipSpace(x, 1)
        signed == i <= Len(x) /\ x[i] \in {"-", "+"}
        r == ScanDigits(x, IF signed THEN i + 1 ELSE i, 0, FALSE)
    IN IF ~r.any THEN [n |-> 0, err |-> "convert"]
       ELSE [n |-> IF signed /\ x[i] = "-" THEN 0 - r.n ELSE r.n, err |-> ""]

\* int(f) for a float64 held in tenths: truncation toward zero
TruncFloat(tenths) == IF tenths < 0 THEN 0 - ((0 - tenths) \div 10) ELSE tenths \div 10

\* Manager.GetInt(key)
GetInt(h, d, key, cs) ==
    {IF r.err # "" THEN r
     ELSE CASE r.v.t \in {"int", "int64"} -> ResOk(VInt(r.v.n))
            [] r.v.t = "float" -> ResOk(VInt(TruncFloat(r.v.n)))
            [] r.v.t = "str" ->
                  LET sc == Sscanf_d(r.v.s)
                  IN IF sc.err # "" THEN ResErr("convert") ELSE ResOk(VInt(sc.n))
            [] OTHER -> ResErr("convert")
       : r \in Get(h, d, key, cs)}

sTrue == <<"t","r","u","e">>
sYes == <<"y","e","s">>
sLY == <<"y">>
sOn == <<"o","n">>
sFalse == <<"f","a","l","s","e">>
s0 == <<"0">>
sNo == <<"n","o">>
sLN == <<"n">>
sOff == <<"o","f","f">>

\* Manager.GetBool(key)
GetBool(h, d, key, cs) ==
    {IF r.err # "" THEN r
     ELSE CASE r.v.t = "bool" -> ResOk(r.v)
            [] r.v.t = "int" -> ResOk(VBool(r.v.n # 0))
            [] r.v.t = "float" -> ResOk(VBool(r.v.n # 0))
            [] r.v.t = "str" ->
                  LET lower == ToLower(r.v.s)
                  IN IF lower \in {sTrue, s1, sYes, sLY, sOn} THEN ResOk(VBool(TRUE))
                     ELSE IF lower \in {sFalse, s0, sNo, sLN, sOff} THEN ResOk(VBool(FALSE))
                     ELSE ResErr("convert")
            [] OTHER -> ResErr("convert")
       : r \in Get(h, d, key, cs)}

----------------------------------------------------------------------------
(* Saving.  The file system is the environment: a path can be inaccessible *)
(* and a write can fail.                                                    *)

sSlash == <<"/">>
Cwd == sSlash                       \* the working directory of the process

\* resolvePath(filePath) for a path without "$": the set of possible returns
\* (path, error).  A relative path is made absolute; os.Stat can fail.
resolvePath(path) ==
    IF path = <<>> THEN {[err |-> "resolve", p |-> <<>>]}
    ELSE LET abs == IF Head(path) = "/" THEN path ELSE Cwd \o path
         IN {[err |-> "", p |-> abs], [err |-> "resolve", p |-> <<>>]}

SaveRes(err, fp, ff) == [err |-> err, ff |-> ff, fp |-> fp]

\* Manager.SaveToFile(path, format): the set of possible outcomes, with the
\* file path and format tag the Manager holds afterwards.  encoding/json
\* does not marshal a map[interface{}]interface{}.
SaveToFile(h, d, fp, ff, path, format) ==
    UNION {
      IF rp.err # "" THEN {SaveRes("resolve path", fp, ff)}
      ELSE IF format \notin {FormatJSON, FormatYAML, FormatYML} THEN {SaveRes("marshal", fp, ff)}
      ELSE IF format = FormatJSON /\ ~StringKeyed(Plain(h, VRef(d))) THEN {SaveRes("marshal", fp, ff)}
      ELSE {SaveRes("create directory", fp, ff), SaveRes("write file", fp, ff),
            SaveRes("", rp.p, format)}
      : rp \in resolvePath(path)}

\* Manager.Save()
Save(h, d, fp, ff) ==
    IF fp = <<>> THEN {SaveRes("save", fp, ff)} ELSE SaveToFile(h, d, fp, ff, fp, ff)

----------------------------------------------------------------------------
(* The calls a client makes, and what it passes. *)

pApp == Join2(sApp, sName)          \* "app.name"
pPort == Join2(sServer, sPort)      \* "server.port"

\* Key paths handed to Get and to Delete.
Paths == {sEmpty, sA, sUA, Join2(sA, sB), Join2(sUA, sUB), Join2(sA, s1), pApp, pPort}

\* Key paths handed to the typed accessors.
TypedPaths == {sA, Join2(sA, sB), pApp, pPort}

\* Key paths handed to Set.
SetPaths == {sEmpty, sA, Join2(sA, sB), Join2(sUA, sUB), Join2(sA, s1)}

\* {"app":{"name":"TestApp","version":"1.0.0"},"server":{"port":8080}}
DocApp ==
    DMap(M2(KStr(sApp), DMap(M2(KStr(sName), VStr(sTestApp), KStr(sVersion), VStr(sV100))),
            KStr(sServer), DMap(M1(KStr(sPort), VInt(8080)))))
\* {"a":{"b":1}}
DocAB == DMap(M1(KStr(sA), DMap(M1(KStr(sB), VInt(1)))))
\* a: {1: x, b: [ {true: 1} ]}        (YAML only)
DocIntKey ==
    DMap(M1(KStr(sA), DMap(M2(KInt(1), VStr(sX),
                              KStr(sB), VSeq(<<DMap(M1(KBool(TRUE), VInt(1)))>>)))))
\* a: {1: x, "1": x}                  (YAML only)
DocTwice == DMap(M1(KStr(sA), DMap(M2(KInt(1), VStr(sX), KStr(s1), VStr(sX)))))
\* 1: {2: x}                          (YAML only)
DocTopInt == DMap(M1(KInt(1), DMap(M1(KInt(2), VStr(sX)))))

\* What Load is called with: a document (or text that is none, or a failing
\* reader) and a format tag.
LoadInputs ==
    ({DocApp, DocAB, VInt(1), VNil, DBad} \X {FormatJSON})
    \cup ({DocAB, DocIntKey, DocTopInt, DocTwice, VNil, DBad, DReadErr} \X {FormatYAML})
    \cup ({DocAB} \X {FormatYML, sInvalid})

\* Values handed to Set.
SetValues == {VInt(1),
              VSMap(M1(KStr(sX), VInt(1))),
              VIMap(M1(KStr(sB), VInt(2))),
              VIMap(M2(KInt(1), VInt(3), KStr(s1), VInt(4)))}

\* Maps handed to MergeMap (the data of the Manager handed to Merge).
MergeArgs == {VSMap(M1(KStr(sA), VSMap(M1(KStr(sY), VInt(2))))),
              VSMap(M2(KStr(sA), VInt(6), KStr(sUA), VSMap(M1(KStr(sB), VInt(7))))),
              VSMap(EmptyMap)}

Call(o, key, val, err, res, doc, fmt) ==
    [op |-> o, key |-> key, err |-> err, val |-> val, doc |-> doc, res |-> res, fmt |-> fmt]

Snapshot == [heap |-> heap, data |-> data, fileFormat |-> fileFormat,
             filePath |-> filePath, caseSensitive |-> caseSensitive]

Queries == {"Get", "GetString", "GetInt", "GetBool", "Data"}

\* What a caller does with a map a call handed to it.
ClientOps == {"ClientPut", "ClientDelete"}

\* The client can make its next call: no call has panicked.  A behaviour is
\* the mutating calls of a client and then one query: a query changes nothing
\* of the Manager, so the calls after it reach no state the calls before it
\* do not reach.
Running == last.err # "panic" /\ last.op \notin Queries \cup ClientOps

\* The state after a call: the heap garbage-collected from what is still held.
After(h, d, o, call) ==
    /\ heap' = Collect(h, {d, o} \cup RefsOf(call.val) \cup RefsOf(call.res))
    /\ data' = d
    /\ other' = o
    /\ last' = call
    /\ pre' = Snapshot

\* New(WithCaseSensitive(b)) / New()
NewManager(cs) ==
    /\ heap = [a \in Addrs |-> IF a = 1 THEN [m |-> EmptyMap, kind |-> "smap"] ELSE NoObj]
    /\ data = 1
    /\ fileFormat = <<>>
    /\ filePath = <<>>
    /\ caseSensitive = cs
    /\ other = NilAddr
    /\ last = Call("New", <<>>, VNil, "", VNil, VNil, <<>>)
    /\ pre = [heap |-> heap, data |-> data, fileFormat |-> fileFormat,
              filePath |-> filePath, caseSensitive |-> caseSensitive]
    /\ calls = 0

DoLoad ==
    /\ Running /\ calls < MaxCalls
    /\ \E in \in LoadInputs :
          LET doc == in[1]
              format == in[2]
          IN
          /\ FreeCount(heap) >= MapCount(doc) + 1
          /\ \E r \in Load(heap, data, fileFormat, doc, format) :
                /\ After(r.h, r.d, other, Call("Load", <<>>, VNil, r.err, VNil, doc, format))
                /\ fileFormat' = r.ff
    /\ calls' = calls + 1
    /\ UNCHANGED <<filePath, caseSensitive>>

DoGet ==
    /\ Running
    /\ \E key \in Paths : \E r \in Get(heap, data, key, caseSensitive) :
          After(heap, data, other, Call("Get", key, VNil, r.err, r.v, VNil, <<>>))
    /\ UNCHANGED <<fileFormat, filePath, caseSensitive, calls>>

DoGetString ==
    /\ Running
    /\ \E key \in TypedPaths : \E r \in GetString(heap, data, key, caseSensitive) :
          After(heap, data, other, Call("GetString", key, VNil, r.err, r.v, VNil, <<>>))
    /\ UNCHANGED <<fileFormat, filePath, caseSensitive, calls>>

DoGetInt ==
    /\ Running
    /\ \E key \in TypedPaths : \E r \in GetInt(heap, data, key, caseSensitive) :
          After(heap, data, other, Call("GetInt", key, VNil, r.err, r.v, VNil, <<>>))
    /\ UNCHANGED <<fileFormat, filePath, caseSensitive, calls>>

DoGetBool ==
    /\ Running
    /\ \E key \in TypedPaths : \E r \in GetBool(heap, data, key, caseSensitive) :
          After(heap, data, other, Call("GetBool", key, VNil, r.err, r.v, VNil, <<>>))
    /\ UNCHANGED <<fileFormat, filePath, caseSensitive, calls>>

DoSet ==
    /\ Running /\ calls < MaxCalls
    /\ \E key \in SetPaths, value \in SetValues :
          /\ FreeCount(heap) >= MapCount(value) + Len(Split(key))
          /\ LET b == Build(heap, value)
             IN \E r \in Set(b.h, data, key, b.v) :
                   After(r.h, data, other, Call("Set", key, b.v, r.err, VNil, value, <<>>))
    /\ calls' = calls + 1
    /\ UNCHANGED <<fileFormat, filePath, caseSensitive>>

DoDelete ==
    /\ Running /\ calls < MaxCalls
    /\ \E key \in Paths : \E r \in Delete(heap, data, key, caseSensitive) :
          After(r.h, data, other, Call("Delete", key, VNil, r.err, VNil, VNil, <<>>))
    /\ calls' = calls + 1
    /\ UNCHANGED <<fileFormat, filePath, caseSensitive>>

DoClear ==
    /\ Running /\ calls < MaxCalls
    /\ FreeCount(heap) >= 1
    /\ LET c == Clear(heap)
       IN After(c.h, c.d, other, Call("Clear", <<>>, VNil, "", VNil, VNil, <<>>))
    /\ calls' = calls + 1
    /\ UNCHANGED <<fileFormat, filePath, caseSensitive>>

DoMergeMap ==
    /\ Running /\ calls < MaxCalls
    /\ \E arg \in MergeArgs :
          /\ FreeCount(heap) >= MapCount(arg)
          /\ LET b == Build(heap, arg)
                 r == MergeMap(b.h, data, b.v.n)
             IN After(r.h, data, b.v.n, Call("MergeMap", <<>>, b.v, r.err, VNil, arg, <<>>))
    /\ calls' = calls + 1
    /\ UNCHANGED <<fileFormat, filePath, caseSensitive>>

DoData ==
    /\ Running
    /\ FreeCount(heap) >= 1
    /\ LET r == Data(heap, data)
       IN After(r.h, data, other, Call("Data", <<>>, VNil, "", r.v, VNil, <<>>))
    /\ UNCHANGED <<fileFormat, filePath, caseSensitive, calls>>

\* The caller holds the whole tree as Get("") or Data() returned it.
HoldsReturnedTree ==
    /\ last.op \in {"Get", "Data"} /\ last.key = <<>> /\ last.err = ""
    /\ last.res.t = "ref" /\ last.res.n # NilAddr

\* The caller assigns a top-level key of the returned map: v["a"] = 7.
ClientPut ==
    /\ HoldsReturnedTree
    /\ \E k \in {sA, sX} :
          After([heap EXCEPT ![last.res.n].m = Put(@, KStr(k), VInt(7))], data, other,
                Call("ClientPut", k, VInt(7), "", last.res, VNil, <<>>))
    /\ UNCHANGED <<fileFormat, filePath, caseSensitive, calls>>

\* The caller deletes a top-level key of the returned map: delete(v, "a").
ClientDelete ==
    /\ HoldsReturnedTree
    /\ \E k \in DOMAIN heap[last.res.n].m :
          After([heap EXCEPT ![last.res.n].m = Remove(@, k)], data, other,
                Call("ClientDelete", k.s, VNil, "", last.res, VNil, <<>>))
    /\ UNCHANGED <<fileFormat, filePath, caseSensitive, calls>>

\* The harnesses of the other specifications stay as they start.
NormIdle == nin = VNil /\ nout = <<>>
TsIdle == mu = <<>> /\ pc = <<>> /\ op = <<>> /\ via = <<>>

Init ==
    /\ \E cs \in BOOLEAN : NewManager(cs)
    /\ NormIdle
    /\ TsIdle

Next ==
    \/ DoLoad /\ UNCHANGED <<normVars, tsVars>>
    \/ DoGet /\ UNCHANGED <<normVars, tsVars>>
    \/ DoGetString /\ UNCHANGED <<normVars, tsVars>>
    \/ DoGetInt /\ UNCHANGED <<normVars, tsVars>>
    \/ DoSet /\ UNCHANGED <<normVars, tsVars>>
    \/ DoDelete /\ UNCHANGED <<normVars, tsVars>>
    \/ DoClear /\ UNCHANGED <<normVars, tsVars>>
    \/ DoMergeMap /\ UNCHANGED <<normVars, tsVars>>
    \/ DoData /\ UNCHANGED <<normVars, tsVars>>
    \/ ClientPut /\ UNCHANGED <<normVars, tsVars>>
    \/ ClientDelete /\ UNCHANGED <<normVars, tsVars>>

Spec == Init /\ [][Next]_vars

----------------------------------------------------------------------------
(* The typed accessors on their own: one value is stored under "a", and an *)
(* accessor reads it.                                                       *)

MaxStrLen == 2      \* length of the strings made of AccChars

AccChars == {"1", "2", "x", "-", " "}

RECURSIVE AccStrings(_)
AccStrings(len) ==
    IF len = 0 THEN {<<>>}
    ELSE AccStrings(len - 1)
         \cup {Append(x, c) : x \in {y \in AccStrings(len - 1) : Len(y) = len - 1}, c \in AccChars}

AccWords == {sTrue, sYes, sLY, sOn, sFalse, s0, sNo, sLN, sOff,
             <<"Y","E","S">>, <<"O","n">>, <<"N","O">>, <<"m","a","y","b","e">>,
             <<"y","e","s"," ">>, <<"t">>}

\* The values stored.
AccValues ==
    {VInt(0), VInt(5), VInt(0 - 3), VInt64(0), VInt64(5),
     VFloat(37), VFloat(0 - 37), VFloat(0), VFloat(30), VFloat(5), VFloat(0 - 5),
     VBool(TRUE), VBool(FALSE), VNil,
     VSeq(<<>>), VSeq(<<VInt(1)>>), VSMap(EmptyMap), VSMap(M1(KStr(sX), VInt(1))),
     VIMap(M1(KInt(1), VInt(1)))}
    \cup {VStr(x) : x \in AccStrings(MaxStrLen) \cup AccWords}

\* m.Set("a", v) on the new Manager
AccSet ==
    /\ last.op = "New"
    /\ \E value \in AccValues :
          LET b == Build(heap, value)
          IN \E r \in Set(b.h, data, sA, b.v) :
                After(r.h, data, other, Call("Set", sA, b.v, r.err, VNil, value, <<>>))
    /\ calls' = calls + 1
    /\ UNCHANGED <<fileFormat, filePath, caseSensitive>>

InitAcc ==
    /\ NewManager(TRUE)
    /\ NormIdle
    /\ TsIdle

NextAcc ==
    \/ AccSet /\ UNCHANGED <<normVars, tsVars>>
    \/ DoGetInt /\ UNCHANGED <<normVars, tsVars>>
    \/ DoGetBool /\ UNCHANGED <<normVars, tsVars>>
    \/ DoGetString /\ UNCHANGED <<normVars, tsVars>>

SpecAcc == InitAcc /\ [][NextAcc]_vars

----------------------------------------------------------------------------
(* A caller that hands to Set a mapping it got from Get:
   v, _ := m.Get("a"); m.Set("b", v).  Get returns the map object of the
   tree and Set stores the object it is given. *)

\* Values handed to Set next to the mappings got from Get.
FrameValues == {VInt(1), VSMap(M1(KStr(sX), VInt(1)))}

\* m.Set(key, value) with a value the caller built.
FrSet ==
    /\ Running /\ calls < MaxFrameCalls
    /\ \E key \in SetPaths, value \in FrameValues :
          /\ FreeCount(heap) >= MapCount(value) + Len(Split(key))
          /\ LET b == Build(heap, value)
             IN \E r \in Set(b.h, data, key, b.v) :
                   After(r.h, data, other, Call("Set", key, b.v, r.err, VNil, value, <<>>))
    /\ calls' = calls + 1
    /\ UNCHANGED <<fileFormat, filePath, caseSensitive>>

\* m.Set(key, v) with the mapping v that the Get before it returned.  The
\* calls that would make a mapping contain itself are left out.
FrSetGot ==
    /\ last.op = "Get" /\ last.err = "" /\ IsRefTo(heap, last.res, "smap")
    /\ calls < MaxFrameCalls
    /\ \E key \in SetPaths :
          /\ FreeCount(heap) >= Len(Split(key))
          /\ \E r \in Set(heap, data, key, last.res) :
                /\ last.res.n \notin
                      Reachable(r.h, UNION {RefsOf(r.h[last.res.n].m[k])
                                              : k \in DOMAIN r.h[last.res.n].m})
                /\ After(r.h, data, other,
                         Call("Set", key, last.res, r.err, VNil, Plain(heap, last.res), <<>>))
    /\ calls' = calls + 1
    /\ UNCHANGED <<fileFormat, filePath, caseSensitive>>

InitFrame ==
    /\ NewManager(TRUE)
    /\ NormIdle
    /\ TsIdle

NextFrame ==
    \/ FrSet /\ UNCHANGED <<normVars, tsVars>>
    \/ DoGet /\ UNCHANGED <<normVars, tsVars>>
    \/ FrSetGot /\ UNCHANGED <<normVars, tsVars>>

SpecFrame == InitFrame /\ [][NextFrame]_vars

----------------------------------------------------------------------------
(* transformMapKeys on its own: a value is handed to it, and its result is *)
(* handed to it again.                                                      *)

MaxNormDepth == 3   \* nesting depth of the values handed to transformMapKeys

NormScalars == {VNil, VInt(1), VStr(sX), VBool(TRUE)}

\* The values one level deeper than v.
NormWrap(v) ==
    {VSeq(<<v>>),
     VSeq(<<v, VStr(sX)>>),
     VSMap(M1(KStr(sA), v)),
     VIMap(M1(KInt(1), v)),
     VIMap(M2(KBool(TRUE), v, KFloat(15), VInt(1))),
     VIMap(M2(KInt(1), v, KStr(s1), VInt(1)))}

RECURSIVE NormInputs(_)
NormInputs(depth) ==
    IF depth = 0 THEN NormScalars
    ELSE NormScalars \cup UNION {NormWrap(v) : v \in NormInputs(depth - 1)}

\* out := transformMapKeys(in)
Normalize ==
    /\ nout = <<>>
    /\ \E r \in transformMapKeys(nin) : nout' = <<r>>
    /\ UNCHANGED nin

\* out2 := transformMapKeys(out)
Renormalize ==
    /\ Len(nout) = 1
    /\ \E r \in transformMapKeys(nout[1]) : nout' = nout \o <<r>>
    /\ UNCHANGED nin

InitNorm ==
    /\ NewManager(TRUE)
    /\ TsIdle
    /\ nin \in NormInputs(MaxNormDepth)
    /\ nout = <<>>

NextNorm ==
    \/ Normalize /\ UNCHANGED <<mgrVars, tsVars>>
    \/ Renormalize /\ UNCHANGED <<mgrVars, tsVars>>

SpecNorm == InitNorm /\ [][NextNorm]_vars

----------------------------------------------------------------------------
(* One ThreadSafeManager called from several goroutines.  mu is its         *)
(* sync.RWMutex: mu.w the goroutine that holds the writer side (waiting for *)
(* the readers to leave, or in), mu.r the goroutines that hold a read lock. *)

Procs == 1..NumProcs

WrapperOps == {"Get", "GetString", "GetBool", "GetInt", "GetFloat", "GetStringSlice",
               "Set", "Has", "Delete", "Save", "SaveToFile", "Data",
               "Clear", "Merge", "MergeMap"}

\* The lock each method of ThreadSafeManager takes.
LockMode_DeleteShared(o) ==
    IF o \in {"Set", "Clear", "Merge", "MergeMap"} THEN "Lock" ELSE "RLock"

LockMode(o) ==
    IF o \in {"Set", "Delete", "Clear", "Merge", "MergeMap"} THEN "Lock" ELSE "RLock"

\* What the goroutines pass.
TsKey == sA
TsValue == VInt(1)
TsMergeArg == VSMap(M1(KStr(sB), VInt(2)))
SavePaths == {sX}
SaveFormats == {FormatJSON, FormatYAML}

\* &sync.RWMutex{}
FreeLock == [r |-> {}, w |-> 0]

\* Manager.ThreadSafe(): a wrapper of the Manager with a mutex of its own.
TsThreadSafe ==
    /\ Len(mu) < MaxWrappers
    /\ mu' = Append(mu, FreeLock)
    /\ UNCHANGED <<pc, op, via, mgrVars>>

\* A goroutine calls a method of a wrapper.
TsCall(p) ==
    /\ pc[p] = "idle"
    /\ \E o \in WrapperOps : op' = [op EXCEPT ![p] = o]
    /\ \E t \in 1..Len(mu) : via' = [via EXCEPT ![p] = t]
    /\ pc' = [pc EXCEPT ![p] = "call"]
    /\ UNCHANGED <<mu, mgrVars>>

\* t.mu.RLock(): held out while a writer holds or waits for the lock.
TsRLock(p) ==
    /\ pc[p] = "call" /\ LockMode(op[p]) = "RLock"
    /\ mu[via[p]].w = 0
    /\ mu' = [mu EXCEPT ![via[p]].r = @ \cup {p}]
    /\ pc' = [pc EXCEPT ![p] = "in"]
    /\ UNCHANGED <<op, via, mgrVars>>

\* t.mu.Lock(), first half: take the writer side, new readers are held out.
TsLock(p) ==
    /\ pc[p] = "call" /\ LockMode(op[p]) = "Lock"
    /\ mu[via[p]].w = 0
    /\ mu' = [mu EXCEPT ![via[p]].w = p]
    /\ pc' = [pc EXCEPT ![p] = "wait"]
    /\ UNCHANGED <<op, via, mgrVars>>

\* t.mu.Lock(), second half: the readers have left.
TsLockGranted(p) ==
    /\ pc[p] = "wait"
    /\ mu[via[p]].r = {}
    /\ pc' = [pc EXCEPT ![p] = "in"]
    /\ UNCHANGED <<mu, op, via, mgrVars>>

\* A return that leaves the mutex as it is.
TsReturn_keepsLock(p) ==
    /\ mu' = mu
    /\ pc' = [pc EXCEPT ![p] = "idle"]
    /\ op' = [op EXCEPT ![p] = ""]
    /\ via' = [via EXCEPT ![p] = 0]

\* The deferred t.mu.Unlock() / t.mu.RUnlock(), and the return.
TsReturn(p) ==
    /\ mu' = IF LockMode(op[p]) = "Lock" THEN [mu EXCEPT ![via[p]].w = 0]
             ELSE [mu EXCEPT ![via[p]].r = @ \ {p}]
    /\ pc' = [pc EXCEPT ![p] = "idle"]
    /\ op' = [op EXCEPT ![p] = ""]
    /\ via' = [via EXCEPT ![p] = 0]

In(p, o) == pc[p] = "in" /\ op[p] = o

\* The body of a method that reads the Manager and writes nothing of it.
TsRead(p, o) == In(p, o) /\ TsReturn(p) /\ UNCHANGED mgrVars

TsGet(p) == TsRead(p, "Get")
TsGetString(p) == TsRead(p, "GetString")
TsGetBool(p) == TsRead(p, "GetBool")
TsGetInt(p) == TsRead(p, "GetInt")
TsGetFloat(p) == TsRead(p, "GetFloat")
TsGetStringSlice(p) == TsRead(p, "GetStringSlice")
TsHas(p) == TsRead(p, "Has")
TsData(p) == TsRead(p, "Data")

\* The body of a method that changes the tree to heap h and root d.
TsWrite(p, h, d) ==
    /\ TsReturn(p)
    /\ heap' = Collect(h, {d})
    /\ data' = d
    /\ UNCHANGED <<fileFormat, filePath, caseSensitive, other, last, pre, calls>>

TsSet(p) ==
    /\ In(p, "Set")
    /\ \E r \in Set(heap, data, TsKey, TsValue) : TsWrite(p, r.h, data)

TsDelete(p) ==
    /\ In(p, "Delete")
    /\ \E r \in Delete(heap, data, TsKey, caseSensitive) : TsWrite(p, r.h, data)

TsClear(p) ==
    /\ In(p, "Clear")
    /\ LET c == Clear(heap) IN TsWrite(p, c.h, c.d)

TsMergeMap(p) ==
    /\ In(p, "MergeMap")
    /\ LET b == Build(heap, TsMergeArg)
       IN TsWrite(p, MergeMap(b.h, data, b.v.n).h, data)

\* Merge(other) is MergeMap(other.data).
TsMerge(p) ==
    /\ In(p, "Merge")
    /\ LET b == Build(heap, TsMergeArg)
       IN TsWrite(p, MergeMap(b.h, data, b.v.n).h, data)

\* The body of a method that writes the file: it leaves the tree alone and
\* ends with the file path and format tag of outcome r.
TsSaved(p, r) ==
    /\ TsReturn(p)
    /\ filePath' = r.fp
    /\ fileFormat' = r.ff
    /\ UNCHANGED <<heap, data, caseSensitive, other, last, pre, calls>>

TsSave(p) ==
    /\ In(p, "Save")
    /\ \E r \in Save(heap, data, filePath, fileFormat) : TsSaved(p, r)

TsSaveToFile(p) ==
    /\ In(p, "SaveToFile")
    /\ \E path \in SavePaths, format \in SaveFormats :
          \E r \in SaveToFile(heap, data, filePath, fileFormat, path, format) : TsSaved(p, r)

\* New().ThreadSafe()
InitTS ==
    /\ NewManager(TRUE)
    /\ NormIdle
    /\ mu = <<FreeLock>>
    /\ pc = [p \in Procs |-> "idle"]
    /\ op = [p \in Procs |-> ""]
    /\ via = [p \in Procs |-> 0]

NextTS ==
    \/ \E p \in Procs : TsCall(p) /\ UNCHANGED normVars
    \/ \E p \in Procs : TsRLock(p) /\ UNCHANGED normVars
    \/ \E p \in Procs : TsLock(p) /\ UNCHANGED normVars
    \/ \E p \in Procs : TsLockGranted(p) /\ UNCHANGED normVars
    \/ \E p \in Procs : TsGet(p) /\ UNCHANGED normVars
    \/ \E p \in Procs : TsGetString(p) /\ UNCHANGED normVars
    \/ \E p \in Procs : TsGetBool(p) /\ UNCHANGED normVars
    \/ \E p \in Procs : TsGetInt(p) /\ UNCHANGED normVars
    \/ \E p \in Procs : TsGetFloat(p) /\ UNCHANGED normVars
    \/ \E p \in Procs : TsGetStringSlice(p) /\ UNCHANGED normVars
    \/ \E p \in Procs : TsHas(p) /\ UNCHANGED normVars
    \/ \E p \in Procs : TsData(p) /\ UNCHANGED normVars
    \/ \E p \in Procs : TsSet(p) /\ UNCHANGED normVars
    \/ \E p \in Procs : TsDelete(p) /\ UNCHANGED normVars
    \/ \E p \in Procs : TsClear(p) /\ UNCHANGED normVars
    \/ \E p \in Procs : TsMerge(p) /\ UNCHANGED normVars
    \/ \E p \in Procs : TsMergeMap(p) /\ UNCHANGED normVars
    \/ \E p \in Procs : TsSave(p) /\ UNCHANGED normVars
    \/ \E p \in Procs : TsSaveToFile(p) /\ UNCHANGED normVars

SpecTS == InitTS /\ [][NextTS]_vars

\* The goroutines call the wrappers that ThreadSafe() has made of one
\* Manager so far: New().ThreadSafe() at first, and any made later.
NextWrappers ==
    \/ NextTS
    \/ TsThreadSafe /\ UNCHANGED normVars

SpecWrappers == InitTS /\ [][NextWrappers]_vars

\* The steps of goroutine p: entering the lock, and the body up to the return.
TsAcquire(p) == (TsRLock(p) \/ TsLock(p)) /\ UNCHANGED normVars
TsGranted(p) == TsLockGranted(p) /\ UNCHANGED normVars
TsBody(p) ==
    /\ \/ TsGet(p) \/ TsGetString(p) \/ TsGetBool(p) \/ TsGetInt(p)
       \/ TsGetFloat(p) \/ TsGetStringSlice(p) \/ TsHas(p) \/ TsData(p)
       \/ TsSet(p) \/ TsDelete(p) \/ TsClear(p) \/ TsMerge(p) \/ TsMergeMap(p)
       \/ TsSave(p) \/ TsSaveToFile(p)
    /\ UNCHANGED normVars

\* The scheduler runs every goroutine that can run.  A goroutine blocked in
\* RLock or Lock is woken when the lock is handed over: sync.RWMutex admits
\* the readers that queued behind a writer when that writer unlocks, and
\* sync.Mutex hands the lock to a starving waiter, so an acquisition that
\* is possible again and again is made (strong fairness).  Nothing obliges
\* a goroutine to make a call.
FairTS ==
    \A p \in Procs :
        /\ SF_vars(TsAcquire(p))
        /\ WF_vars(TsGranted(p))
        /\ WF_vars(TsBody(p))

SpecTSFair == InitTS /\ [][NextTS]_vars /\ FairTS

----------------------------------------------------------------------------
(* What the claims speak of. *)

\* The tree of the Manager, and the tree before the last call, as plain values.
Tree == Plain(heap, VRef(data))
PreTree == Plain(pre.heap, VRef(pre.data))

\* The last call left m.data and every map of the tree as they were.
TreeUntouched ==
    /\ data = pre.data
    /\ \A a \in Reachable(pre.heap, {pre.data} \ {NilAddr}) : heap[a] = pre.heap[a]

\* Looking up the keys one after the other in a plain tree of string-keyed
\* mappings: the value reached, or no value.
RECURSIVE Lookup(_, _)
Lookup(tree, keys) ==
    IF tree.t # "smap" \/ KStr(Head(keys)) \notin DOMAIN tree.m THEN [v |-> VNil, found |-> FALSE]
    ELSE IF Len(keys) = 1 THEN [v |-> tree.m[KStr(Head(keys))], found |-> TRUE]
    ELSE Lookup(tree.m[KStr(Head(keys))], Tail(keys))

\* The tree of {"app":{"name":"TestApp","version":"1.0.0"},"server":{"port":8080}}
\* once decoded from JSON.
AppTree ==
    VSMap(M2(KStr(sApp), VSMap(M2(KStr(sName), VStr(sTestApp), KStr(sVersion), VStr(sV100))),
             KStr(sServer), VSMap(M1(KStr(sPort), VFloat(80800)))))

\* C1: in case-sensitive mode, on a tree of string-keyed mappings, Get of a
\* non-empty path returns the value reached by looking up its segments in
\* turn, and an error when a segment is absent or an intermediate value is no
\* mapping; after loading the JSON document of the test, GetString("app.name")
\* is "TestApp" and GetInt("server.port") is 8080.
C1_GetFollowsPath ==
    /\ (last.op = "Get" /\ last.key # <<>> /\ caseSensitive /\ StringKeyed(Tree))
          => LET want == Lookup(Tree, Split(last.key))
             IN /\ (last.err = "") = want.found
                /\ want.found => Plain(heap, last.res) = want.v
    /\ (Tree = AppTree /\ fileFormat = FormatJSON /\ caseSensitive)
          => /\ (last.op = "GetString" /\ last.key = pApp)
                   => (last.err = "" /\ last.res = VStr(sTestApp))
             /\ (last.op = "GetInt" /\ last.key = pPort)
                   => (last.err = "" /\ last.res = VInt(8080))

C1_Witness ==
    /\ last.op = "GetInt" /\ last.key = pPort /\ last.res = VInt(8080)
    /\ Tree = AppTree /\ fileFormat = FormatJSON /\ caseSensitive

\* C2: in both case modes, for a path p that Get resolved before the write
\* and a value v that is no foreign-keyed mapping, Get(p) right after
\* Set(p, v) returns exactly v.
C2_SetThenGet ==
    (/\ last.op = "Set" /\ last.err = "" /\ last.doc.t # "imap"
     /\ \A r \in Get(pre.heap, pre.data, last.key, caseSensitive) : r.err = "")
        => Get(heap, data, last.key, caseSensitive) = {ResOk(last.val)}

\* C3: Delete(p) with the final key absent at the resolved parent returns
\* not-found and leaves the tree unchanged; Delete(p) on a path Get(p)
\* resolves succeeds, and the next Get(p) fails with not-found.
C3_DeleteRemoves ==
    last.op = "Delete" =>
        /\ last.err = "notfound" => TreeUntouched
        /\ (last.key # <<>> /\ \A r \in Get(pre.heap, pre.data, last.key, caseSensitive) : r.err = "")
              => /\ last.err = ""
                 /\ \A r \in Get(heap, data, last.key, caseSensitive) : r.err = "notfound"


\* A shallow merge of plain tree b into plain tree a, as the claim words it.
ShallowMerge(a, b) ==
    VSMap([k \in DOMAIN a.m \cup DOMAIN b.m |->
             IF k \notin DOMAIN b.m THEN a.m[k]
             ELSE IF k \in DOMAIN a.m /\ a.m[k].t = "smap" /\ b.m[k].t = "smap"
             THEN VSMap([j \in DOMAIN a.m[k].m \cup DOMAIN b.m[k].m |->
                           IF j \in DOMAIN b.m[k].m THEN b.m[k].m[j] ELSE a.m[k].m[j]])
             ELSE b.m[k]])

\* {a: v}
TreeA(v) == VSMap(M1(KStr(sA), v))

IsTreeAB == Tree \in {TreeA(VSMap(M1(KStr(sB), VInt(1)))), TreeA(VSMap(M1(KStr(sB), VFloat(10))))}

\* No map of the tree holds two string keys that differ only by case.
NoCaseTwins ==
    \A a \in Reachable(heap, {data} \ {NilAddr}) :
        \A k1, k2 \in DOMAIN heap[a].m :
            (k1.t = "str" /\ k2.t = "str" /\ EqualFold(k1.s, k2.s)) => k1 = k2

\* The segments of p and q are pairwise equal ignoring case.
SameIgnoringCase(p, q) ==
    /\ Len(Split(p)) = Len(Split(q))
    /\ \A i \in 1..Len(Split(p)) : EqualFold(Split(p)[i], Split(q)[i])

\* In case-insensitive mode, on a tree without case twins, paths that are
\* equal ignoring case give the same result.
C5_FoldedPathsAgree ==
    (last.op = "Get" /\ ~caseSensitive /\ NoCaseTwins) =>
        \A q \in Paths :
            SameIgnoringCase(q, last.key)
               => Get(heap, data, q, caseSensitive) = {[v |-> last.res, err |-> last.err]}

\* On {"a":{"b":1}} with case sensitivity disabled, Get("A.B") and Get("a.b")
\* both return 1.
C5_InsensitiveBothSucceed ==
    (last.op = "Get" /\ ~caseSensitive /\ IsTreeAB /\ last.key \in {Join2(sUA, sUB), Join2(sA, sB)})
        => (last.err = "" /\ last.res = Tree.m[KStr(sA)].m[KStr(sB)])

\* C5 as stated: ... with case sensitivity enabled the two calls differ, the
\* second, Get("a.b"), failing with not-found.
C5_AsStated ==
    /\ C5_InsensitiveBothSucceed
    /\ (last.op = "Get" /\ caseSensitive /\ IsTreeAB /\ last.key = Join2(sA, sB))
          => last.err = "notfound"
    /\ C5_FoldedPathsAgree

\* C5, amended: ... with case sensitivity enabled the two calls differ, the
\* first, Get("A.B"), failing with not-found while Get("a.b") returns 1.
C5_CaseModes ==
    /\ C5_InsensitiveBothSucceed
    /\ (last.op = "Get" /\ caseSensitive /\ IsTreeAB) =>
          /\ last.key = Join2(sUA, sUB) => last.err = "notfound"
          /\ last.key = Join2(sA, sB) => (last.err = "" /\ last.res = Tree.m[KStr(sA)].m[KStr(sB)])
    /\ C5_FoldedPathsAgree

C5_Witness ==
    /\ last.op = "Get" /\ ~caseSensitive /\ IsTreeAB
    /\ last.key = Join2(sUA, sUB) /\ last.err = "" /\ last.res = VInt(1)

\* C6: a Load that returns an error leaves the tree and the stored format
\* tag as they were, whatever the error (an unknown format tag included).
C6_LoadAllOrNothing ==
    (last.op = "Load" /\ last.err # "") => (TreeUntouched /\ fileFormat = pre.fileFormat)

C6_Witness ==
    /\ last.op = "Load" /\ last.err # "" /\ last.fmt = sInvalid
    /\ pre.fileFormat = FormatJSON /\ DOMAIN PreTree.m # {}

\* C7: after a successful Load on a Manager whose tree was not empty, the
\* tree is the decoded document: its top-level keys are the document's.
C7_LoadReplaces ==
    (last.op = "Load" /\ last.err = "" /\ DOMAIN PreTree.m # {})
        => DOMAIN Tree.m = {KStr(KeyToString(k)) : k \in DOMAIN last.doc.m}

\* C8: after a successful YAML Load every mapping of the tree, at every
\* depth, has string keys only.
C8_YamlStringKeyed ==
    (last.op = "Load" /\ last.err = "" /\ last.fmt \in {FormatYAML, FormatYML})
        => StringKeyed(Tree)


\* C9: transformMapKeys returns for every value built from scalars, null,
\* sequences, string-keyed and foreign-keyed mappings; what it returns it
\* returns again when applied to it; a sequence keeps its length and the
\* order of its elements; a scalar and null come back unchanged.
C9_NormalizeIdempotent ==
    /\ transformMapKeys(nin) # {}
    /\ Len(nout) >= 1 =>
          /\ transformMapKeys(nout[1]) # {}
          /\ nin.t \notin {"seq", "smap", "imap"} => nout[1] = nin
          /\ nin.t = "seq" =>
                /\ nout[1].t = "seq" /\ Len(nout[1].e) = Len(nin.e)
                /\ \A i \in 1..Len(nin.e) : nout[1].e[i] \in transformMapKeys(nin.e[i])
    /\ Len(nout) = 2 => nout[2] = nout[1]

C9_Witness ==
    /\ Len(nout) = 2
    /\ nin = VSeq(<<VIMap(M2(KInt(1), VIMap(M1(KInt(1), VStr(sX))), KStr(s1), VInt(1))), VStr(sX)>>)
    /\ nout[1] = VSeq(<<VSMap(M1(KStr(s1), VSMap(M1(KStr(s1), VStr(sX))))), VStr(sX)>>)

\* The operations the claim lets execute at the same time as each other.
C10_Shared == {"Get", "GetString", "GetBool", "GetInt", "GetFloat", "GetStringSlice",
               "Has", "Data", "Save", "SaveToFile"}

\* C10: while Set, Delete, Clear, Merge or MergeMap executes on the Manager
\* no other wrapper operation executes on it, and only Get, the typed
\* accessors, Has, Data, Save and SaveToFile execute at the same time as each
\* other.
C10_ExclusiveOrShared ==
    \A p, q \in DOMAIN pc :
        (p # q /\ pc[p] = "in" /\ pc[q] = "in") =>
            /\ op[p] \notin {"Set", "Delete", "Clear", "Merge", "MergeMap"}
            /\ op[p] \in C10_Shared /\ op[q] \in C10_Shared

C10_Witness ==
    /\ pc[1] = "in" /\ op[1] = "Delete"
    /\ pc[2] = "call" /\ op[2] = "Get"
    /\ DOMAIN EntriesAt(heap, data) # {}


\* C11: the mapping that Data() or Get("") returns is a copy of the top
\* level: when the caller adds, replaces or removes a top-level key of it,
\* the tree of the store, and so what a later Get returns, stays as it was.
C11_ReturnedTreeIsCopy ==
    last.op \in ClientOps =>
        /\ Tree = PreTree
        /\ \A q \in Paths : \A r \in Get(heap, data, q, caseSensitive) :
              \E r0 \in Get(pre.heap, pre.data, q, caseSensitive) :
                 r.err = r0.err /\ Plain(heap, r.v) = Plain(pre.heap, r0.v)


\* C12: every call of Load, Set, Delete, Clear, Merge/MergeMap, Get and the
\* typed accessors returns normally, with or without an error value: none
\* panics.
C12_NoPanic == last.err # "panic"


\* The value stored under "a".
StoredA == Tree.m[KStr(sA)]

\* The string is a base-10 integer from its first character to its last:
\* an optional sign, then digits.
IsBase10(x) ==
    LET body == IF x # <<>> /\ Head(x) \in {"-", "+"} THEN Tail(x) ELSE x
    IN body # <<>> /\ \A i \in 1..Len(body) : DigitValue(body[i]) >= 0

\* The integer a base-10 string denotes.
Base10Value(x) ==
    LET neg == Head(x) = "-"
        body == IF Head(x) \in {"-", "+"} THEN Tail(x) ELSE x
        n == ScanDigits(body, 1, 0, FALSE).n
    IN IF neg THEN 0 - n ELSE n

\* The integer part of a number given in tenths, toward zero.
TowardZero(tenths) ==
    CHOOSE k \in -100..100 :
        IF tenths >= 0 THEN 10 * k <= tenths /\ tenths < 10 * k + 10
        ELSE 10 * k >= tenths /\ tenths > 10 * k - 10

\* C13: GetInt returns a stored integer as is, a stored float truncated
\* toward zero, a stored string's value exactly when the whole string is a
\* base-10 integer and a conversion error for every other string; a stored
\* bool, mapping or sequence is a conversion error.
C13_GetIntCoerces ==
    (last.op = "GetInt" /\ last.key = sA /\ KStr(sA) \in DOMAIN Tree.m) =>
        CASE StoredA.t = "int" -> last.err = "" /\ last.res = VInt(StoredA.n)
          [] StoredA.t = "float" -> last.err = "" /\ last.res = VInt(TowardZero(StoredA.n))
          [] StoredA.t = "str" ->
                IF IsBase10(StoredA.s)
                THEN last.err = "" /\ last.res = VInt(Base10Value(StoredA.s))
                ELSE last.err = "convert"
          [] StoredA.t \in {"bool", "smap", "imap", "seq"} -> last.err = "convert"
          [] OTHER -> TRUE

\* C14: GetBool returns a stored bool as is; for a stored string, true for
\* "true", "1", "yes", "y", "on" and false for "false", "0", "no", "n",
\* "off", ignoring case, and a conversion error for any other string; for a
\* stored number of any numeric kind, whether it is nonzero; for any other
\* kind a conversion error.
C14_GetBoolCoerces ==
    (last.op = "GetBool" /\ last.key = sA /\ KStr(sA) \in DOMAIN Tree.m) =>
        CASE StoredA.t = "bool" -> last.err = "" /\ last.res = StoredA
          [] StoredA.t = "str" ->
                IF \E w \in {sTrue, s1, sYes, sLY, sOn} : EqualFold(StoredA.s, w)
                THEN last.err = "" /\ last.res = VBool(TRUE)
                ELSE IF \E w \in {sFalse, s0, sNo, sLN, sOff} : EqualFold(StoredA.s, w)
                THEN last.err = "" /\ last.res = VBool(FALSE)
                ELSE last.err = "convert"
          [] StoredA.t \in {"int", "int64", "float"} ->
                last.err = "" /\ last.res = VBool(StoredA.n # 0)
          [] OTHER -> last.err = "convert"


\* The trees the claimed walk of Set(keys, v) can leave from a plain tree:
\* an absent segment, a scalar and a sequence give a fresh mapping, a
\* string-keyed mapping is kept, a foreign-keyed mapping becomes a
\* string-keyed one with its entries under their %v keys; the last key is
\* assigned v.
RECURSIVE SetExpected(_, _, _)
SetExpected(tree, keys, v) ==
    IF Len(keys) = 1 THEN {VSMap(Put(tree.m, KStr(keys[1]), v))}
    ELSE LET k == KStr(Head(keys))
             child == IF k \in DOMAIN tree.m THEN tree.m[k] ELSE VNil
             bases == CASE child.t = "smap" -> {child}
                        [] child.t = "imap" ->
                              {VSMap(g) : g \in Rekeyed(child.m, SprintV, LAMBDA x : {x})}
                        [] OTHER -> {VSMap(EmptyMap)}
         IN {VSMap(Put(tree.m, k, sub))
               : sub \in UNION {SetExpected(b, Tail(keys), v) : b \in bases}}

\* C15: Set on a path of two or more segments always succeeds, and leaves
\* the tree that the walk of the segments and the final assignment give.
C15_SetWalks ==
    (last.op = "Set" /\ Len(Split(last.key)) >= 2) =>
        /\ last.err = ""
        /\ Tree \in SetExpected(PreTree, Split(last.key), Plain(heap, last.val))


\* A key text matches a path segment in the case mode of the Manager.
SegMatch(x, seg) == IF caseSensitive THEN x = seg ELSE EqualFold(x, seg)

\* C16: when Get or Delete resolves a two-segment path whose first segment
\* holds a foreign-keyed mapping, the second segment is looked up among the
\* %v renderings of that mapping's keys: the integer key 1 is matched by
\* "1", a non-string key makes no resolution fail, and Get returns the
\* value below the key as it is stored.
C16_ForeignKeysRendered ==
    (last.op \in {"Get", "Delete"} /\ Len(Split(last.key)) = 2) =>
        LET keys == Split(last.key)
            firsts == {k \in DOMAIN PreTree.m : SegMatch(k.s, keys[1])}
        IN \A k1 \in firsts :
              (firsts = {k1} /\ PreTree.m[k1].t = "imap") =>
                 LET f == PreTree.m[k1].m
                     hits == {k \in DOMAIN f : SegMatch(SprintV(k), keys[2])}
                 IN IF hits = {} THEN last.err = "notfound"
                    ELSE /\ last.err = ""
                         /\ last.op = "Get" => Plain(heap, last.res) \in {f[k] : k \in hits}


\* What goroutine p holds of the mutex of wrapper t.
Holds(p, t) == mu[t].w = p \/ p \in mu[t].r

\* C17: every ThreadSafeManager call releases the lock it acquired before it
\* returns, whatever the call returns: a goroutine that is in no call holds
\* nothing, so once all calls have returned the lock is held by nobody; and
\* under fair scheduling every call that was made returns.
C17_CallsReturnAndRelease ==
    /\ [](\A p \in Procs : pc[p] = "idle" => \A t \in 1..Len(mu) : ~Holds(p, t))
    /\ []((\A p \in Procs : pc[p] = "idle") => \A t \in 1..Len(mu) : mu[t] = FreeLock)
    /\ \A p \in Procs : (pc[p] # "idle") ~> (pc[p] = "idle")

\* A writer waits for a reader to leave while the tree is not empty.
C17_Witness ==
    /\ pc[1] = "wait" /\ op[1] = "Set"
    /\ pc[2] = "in" /\ op[2] = "SaveToFile"
    /\ DOMAIN EntriesAt(heap, data) # {}
    /\ mu[1] = [r |-> {2}, w |-> 1]


\* The mapping that was handed to the last MergeMap, now and before the
\* last call, as plain values.
Merged == Plain(heap, VRef(other))
PreMerged == Plain(pre.heap, VRef(other))

\* C18: MergeMap never makes the Manager and its argument share a mutable
\* mapping: a Set or a Delete applied to the Manager after m.MergeMap(d)
\* leaves the contents of d unchanged.
C18_MergeSharesNothing ==
    (/\ last.op \in {"Set", "Delete"}
     /\ other # NilAddr /\ pre.heap[other] # NoObj)
        => Merged = PreMerged


\* Goroutine p runs the body of an operation under the shared lock.
SharedStep(p) == pc[p] = "in" /\ op[p] \in C10_Shared /\ pc'[p] = "idle"

\* C19: every operation that ThreadSafeManager runs under the shared lock
\* (Get, the typed accessors, Has, Data, Save, SaveToFile) leaves every
\* field of the Manager unchanged: the tree, filePath, fileFormat and
\* caseSensitive.
C19_SharedOpsWriteNothing ==
    [][\A p \in Procs :
          SharedStep(p) =>
              /\ Tree' = Tree
              /\ filePath' = filePath
              /\ fileFormat' = fileFormat
              /\ caseSensitive' = caseSensitive]_vars


\* The operations that write the Manager.
WriteOps == {"Set", "Delete", "Clear", "Merge", "MergeMap"}

\* C20: all the wrappers that ThreadSafe() makes of one Manager exclude each
\* other: a write operation issued through one wrapper never runs at the
\* same time as an operation issued through another wrapper.
C20_WrappersExclude ==
    \A p, q \in Procs :
        (/\ p # q /\ pc[p] = "in" /\ pc[q] = "in"
         /\ via[p] # via[q])
            => op[p] \notin WriteOps /\ op[q] \notin WriteOps


\* One list of segments is the beginning of the other.
IsPrefix(a, b) == Len(a) <= Len(b) /\ SubSeq(b, 1, Len(a)) = a
OnOneBranch(p, q) == IsPrefix(Split(p), Split(q)) \/ IsPrefix(Split(q), Split(p))

\* What a caller sees of Get(q): the value as a plain value, or a failure.
GetOutcome(h, d, q, cs) ==
    {IF r.err = "" THEN [v |-> Plain(h, r.v), ok |-> TRUE] ELSE [v |-> VNil, ok |-> FALSE]
       : r \in Get(h, d, q, cs)}

\* C21: in case-sensitive mode on a tree of string-keyed mappings, a
\* successful Set(p, v) changes nothing outside the branch of p: Get(q) has
\* the same outcome after the Set as before it for every non-empty path q
\* that is not on one branch with p; and Set never changes caseSensitive,
\* fileFormat or filePath.
C21_SetFrame ==
    last.op = "Set" =>
        /\ caseSensitive = pre.caseSensitive
        /\ fileFormat = pre.fileFormat
        /\ filePath = pre.filePath
        /\ (last.err = "" /\ pre.caseSensitive /\ StringKeyed(PreTree))
              => \A q \in Paths \ {sEmpty} :
                    ~OnOneBranch(last.key, q)
                        => GetOutcome(heap, data, q, caseSensitive)
                             = GetOutcome(pre.heap, pre.data, q, pre.caseSensitive)
====
